---- MODULE Spec2Model ----
(***************************************************************************)
(* Model of the translator application: the request handler api_translate  *)
(* (app/main.py), the chunker and translation loop                         *)
(* (app/services/translator.py) and the extract / save functions           *)
(* (app/services/file_utils.py).                                           *)
(*                                                                         *)
(* A Python str is modelled as a sequence of one-character strings, so     *)
(* that split, join, strip and the regular expressions are computed        *)
(* character by character as the code computes them.                       *)
(***************************************************************************)
EXTENDS Integers, Sequences, FiniteSets, TLC

(***************************************************************************)
(* Bounds of the model.                                                    *)
(***************************************************************************)
\* longest text handed to _chunk_text
MaxTextLen == 7
\* largest max_chars handed to _chunk_text
MaxMaxChars == 6
\* longest string over the markup alphabet handed to strip_markdown
MaxMarkupLen == 9
\* longest CSV data handed to extract_text_from_csv (the scenario's data aside)
MaxCsvLen == 5
\* most lines of an IR text handed to save_xlsx_from_flat
MaxSheetLines == 4
\* max_chars of _chunk_text inside a job: the default 6000 brought down to the
\* size of the texts of the model, so that a job has several chunks
ScaledMaxChars == 3
\* most lines of an IR text handed to save_pdf
MaxPdfLines == 4

(***************************************************************************)
(* Python str primitives.                                                  *)
(***************************************************************************)
NL == "\n"

\* the characters str.strip() removes and the regex class \s accepts
Whitespace == {" ", NL, "\t", "\r"}

\* all strings over the alphabet A of length at most n
StringsUpTo(A, n) == UNION {[1..k -> A] : k \in 0..n}

\* s[i:] with a 1-based index
DropFirst(s, i) == SubSeq(s, i, Len(s))

\* s.startswith(p, i-1)
StartsWithAt(s, p, i) ==
    /\ i + Len(p) - 1 <= Len(s)
    /\ \A k \in 1..Len(p) : s[i + k - 1] = p[k]

\* s.find(sep): the least 1-based index where sep occurs, 0 when there is none
Find(s, sep) ==
    LET hits == {i \in 1..Len(s) : StartsWithAt(s, sep, i)}
    IN  IF hits = {} THEN 0 ELSE CHOOSE i \in hits : \A j \in hits : i <= j

\* s.split(sep) for a non-empty separator: left to right, non-overlapping
RECURSIVE Split(_, _)
Split(s, sep) ==
    LET i == Find(s, sep)
    IN  IF i = 0 THEN <<s>>
        ELSE <<SubSeq(s, 1, i - 1)>> \o Split(DropFirst(s, i + Len(sep)), sep)

\* sep.join(parts)
RECURSIVE Join(_, _)
Join(parts, sep) ==
    IF parts = <<>> THEN <<>>
    ELSE IF Len(parts) = 1 THEN parts[1]
    ELSE parts[1] \o sep \o Join(Tail(parts), sep)

\* s.lstrip()
RECURSIVE LStrip(_)
LStrip(s) == IF s # <<>> /\ Head(s) \in Whitespace THEN LStrip(Tail(s)) ELSE s

\* s.rstrip()
RECURSIVE RStrip(_)
RStrip(s) ==
    IF s # <<>> /\ s[Len(s)] \in Whitespace THEN RStrip(SubSeq(s, 1, Len(s) - 1)) ELSE s

\* s.strip()
Strip(s) == LStrip(RStrip(s))

\* the concatenation of a sequence of sequences
RECURSIVE Flatten(_)
Flatten(ss) == IF ss = <<>> THEN <<>> ELSE Head(ss) \o Flatten(Tail(ss))

\* [f(x) for x in xs]
MapSeq(f(_), xs) == [i \in 1..Len(xs) |-> f(xs[i])]

(***************************************************************************)
(* translator.py: _chunk_text                                              *)
(***************************************************************************)
\* the block delimiter "\n\n"
BlockDelim == <<NL, NL>>

\* text.split("\n\n")
Blocks(text) == Split(text, BlockDelim)

BlockLenNoDelim(block) == Len(block)

\* block_len = len(block) + 2
BlockLen(block) == Len(block) + 2

FlushSingleNewline(parts, current) ==
    IF current # <<>> THEN Append(parts, Join(current, <<NL>>)) ELSE parts

\* if current: parts.append("\n\n".join(current))
FlushCurrent(parts, current) ==
    IF current # <<>> THEN Append(parts, Join(current, BlockDelim)) ELSE parts

\* the for loop over the blocks, then the final flush; st = the loop's locals
RECURSIVE ChunkLoop(_, _, _, _, _)
ChunkLoop(blocks, parts, current, current_len, max_chars) ==
    IF blocks = <<>> THEN FlushCurrent(parts, current)
    ELSE LET block == Head(blocks)
             block_len == BlockLen(block)
         IN  IF current_len + block_len <= max_chars
             THEN ChunkLoop(Tail(blocks), parts, Append(current, block),
                            current_len + block_len, max_chars)
             ELSE ChunkLoop(Tail(blocks), FlushCurrent(parts, current),
                            <<block>>, Len(block), max_chars)

\* _chunk_text(text, max_chars)
ChunkText(text, max_chars) ==
    IF Len(text) <= max_chars THEN <<text>>
    ELSE ChunkLoop(Blocks(text), <<>>, <<>>, 0, max_chars)

(***************************************************************************)
(* file_utils.py: strip_markdown, save_txt                                 *)
(***************************************************************************)
\* the length of the maximal run of characters other than "*" at the start of s
RECURSIVE NonStarRun(_)
NonStarRun(s) == IF s # <<>> /\ Head(s) # "*" THEN 1 + NonStarRun(Tail(s)) ELSE 0

\* _BOLD_RE = \*\*([^*]+)\*\* tried at the start of s: the length of group 1,
\* or 0 when the pattern does not match there. [^*]+ is greedy and followed by
\* a "*", so only the maximal run of non-star characters can be the group.
BoldMatchAtStart(s) ==
    IF Len(s) >= 5 /\ s[1] = "*" /\ s[2] = "*"
    THEN LET r == NonStarRun(DropFirst(s, 3))
         IN  IF r >= 1 /\ Len(s) >= r + 4 /\ s[r + 3] = "*" /\ s[r + 4] = "*"
             THEN r ELSE 0
    ELSE 0

BoldReplacementWholeMatch(s, r) == SubSeq(s, 1, r + 4)

\* lambda m: m.group(1), for a match at the start of s whose group has length r
BoldReplacement(s, r) == SubSeq(s, 3, r + 2)

\* _BOLD_RE.sub(lambda m: m.group(1), text): matches are found left to right,
\* the scan resumes after each match and never rescans the replacement
RECURSIVE strip_markdown(_)
strip_markdown(text) ==
    IF text = <<>> THEN <<>>
    ELSE LET r == BoldMatchAtStart(text)
         IN  IF r > 0
             THEN BoldReplacement(text, r) \o strip_markdown(DropFirst(text, r + 5))
             ELSE <<Head(text)>> \o strip_markdown(Tail(text))

\* save_txt(text, path): the content written to path
save_txt(text) == strip_markdown(text)

(***************************************************************************)
(* file_utils.py: the sheet header pattern of save_csv_from_flat and       *)
(* save_xlsx_from_flat, ^=+\s*Sheet:\s*(.+?)\s*=+$ with re.I               *)
(***************************************************************************)
\* the number of leading characters of s that belong to the set cs
RECURSIVE LeadingRun(_, _)
LeadingRun(s, cs) == IF s # <<>> /\ Head(s) \in cs THEN 1 + LeadingRun(Tail(s), cs) ELSE 0

\* "Sheet:" under re.I, one set of accepted characters per position
SheetKeyword == <<{"s", "S"}, {"h", "H"}, {"e", "E"}, {"e", "E"}, {"t", "T"}, {":"}>>

\* \s*=+$ matches the whole of t
HeaderTailMatches(t) ==
    LET rest == DropFirst(t, LeadingRun(t, Whitespace) + 1)
    IN  rest # <<>> /\ \A k \in 1..Len(rest) : rest[k] = "="

\* the ways \s*(.+?)\s*=+$ matches the whole of r: <<i, j>> when the first \s*
\* takes i characters, all of them whitespace, and the group the next j ("."
\* matches all but "\n")
HeaderNameMatches(r) ==
    {c \in (0..LeadingRun(r, Whitespace)) \X (1..Len(r)) :
        /\ c[1] + c[2] < Len(r)
        /\ \A k \in (c[1] + 1)..(c[1] + c[2]) : r[k] # NL
        /\ HeaderTailMatches(DropFirst(r, c[1] + c[2] + 1))}

\* the text after "Sheet:" when =+\s*Sheet: matches at the start of s (=+ and
\* \s* must take the whole runs: what follows them is neither "=" nor space)
AfterSheetKeyword(s) ==
    LET e == LeadingRun(s, {"="})
        w == LeadingRun(DropFirst(s, e + 1), Whitespace)
        p == e + w
    IN  IF /\ e >= 1
           /\ p + Len(SheetKeyword) <= Len(s)
           /\ \A k \in 1..Len(SheetKeyword) : s[p + k] \in SheetKeyword[k]
        THEN <<TRUE, DropFirst(s, p + Len(SheetKeyword) + 1)>>
        ELSE <<FALSE, <<>>>>

\* re.match(r"^=+\s*Sheet:\s*(.+?)\s*=+$", s, flags=re.I) is not None
IsSheetHeader(s) ==
    /\ AfterSheetKeyword(s)[1]
    /\ HeaderNameMatches(AfterSheetKeyword(s)[2]) # {}

\* m.group(1): the first \s* is greedy and the group lazy, so the match found
\* first is the one with the longest \s* and then the shortest group
SheetHeaderName(s) ==
    LET r == AfterSheetKeyword(s)[2]
        ms == HeaderNameMatches(r)
        c == CHOOSE x \in ms : \A y \in ms :
                 x[1] > y[1] \/ (x[1] = y[1] /\ x[2] <= y[2])
    IN  SubSeq(r, c[1] + 1, c[1] + c[2])

(***************************************************************************)
(* file_utils.py: extract_text_from_csv, save_csv_from_flat                *)
(***************************************************************************)
\* the cell delimiter " | "
CellDelim == <<" ", "|", " ">>

\* csv.reader(StringIO(txt)) for text without quote characters: one row per
\* line, a line that is empty gives a row without cells, the line after a
\* final "\n" is not a row, the cells of a line are what "," separates
CsvReader(txt) ==
    LET all == Split(txt, <<NL>>)
        lines == IF all[Len(all)] = <<>> THEN SubSeq(all, 1, Len(all) - 1) ELSE all
    IN  [i \in 1..Len(lines) |->
            IF lines[i] = <<>> THEN <<>> ELSE Split(lines[i], <<",">>)]

RowLineNoRStrip(row) == Join(row, CellDelim)

\* " | ".join(safe).rstrip()
RowLine(row) == RStrip(Join(row, CellDelim))

\* extract_text_from_csv(data), for data that decodes to txt
extract_text_from_csv(txt) ==
    Join(MapSeq(RowLine, CsvReader(txt)), <<NL>>)

\* [c.strip() for c in line.split(" | ")]
Cells(line) == MapSeq(Strip, Split(line, CellDelim))

\* the loop of save_csv_from_flat over the lines: the rows collected
RECURSIVE CsvRows(_)
CsvRows(lines) ==
    IF lines = <<>> THEN <<>>
    ELSE LET line == Head(lines)
             s == Strip(line)
         IN  IF s = <<>> THEN CsvRows(Tail(lines))
             ELSE IF IsSheetHeader(s) THEN CsvRows(Tail(lines))
             ELSE <<Cells(line)>> \o CsvRows(Tail(lines))

\* save_csv_from_flat(text, path): the rows handed to writer.writerows
save_csv_from_flat(text) == CsvRows(Split(text, <<NL>>))

(***************************************************************************)
(* file_utils.py: save_xlsx_from_flat                                      *)
(***************************************************************************)
Sheet1 == <<"S", "h", "e", "e", "t", "1">>
SheetDefault == <<"S", "h", "e", "e", "t">>

\* wb = Workbook(); ws = wb.active; ws.title = "Sheet1"; first_sheet_used = False
\* a workbook is the sequence of its sheets, ws the index of the current one
NewWorkbook ==
    [sheets |-> <<[title |-> Sheet1, rows |-> <<>>]>>, ws |-> 1, first_sheet_used |-> FALSE]

NewSheetAlwaysCreate(st, name) ==
    [st EXCEPT !.sheets = Append(@, [title |-> IF name # <<>> THEN name ELSE SheetDefault,
                                     rows |-> <<>>]),
               !.ws = Len(st.sheets) + 1]

\* new_sheet(name): the title is the one asked of the workbook
NewSheet(st, name) ==
    IF ~st.first_sheet_used
    THEN [st EXCEPT !.sheets[st.ws].title = IF name # <<>> THEN name ELSE Sheet1,
                    !.first_sheet_used = TRUE]
    ELSE [st EXCEPT !.sheets = Append(@, [title |-> IF name # <<>> THEN name ELSE SheetDefault,
                                          rows |-> <<>>]),
                    !.ws = Len(st.sheets) + 1]

\* the loop of save_xlsx_from_flat over the lines
RECURSIVE XlsxLoop(_, _)
XlsxLoop(lines, st) ==
    IF lines = <<>> THEN st
    ELSE LET line == Head(lines)
             s == Strip(line)
         IN  IF s = <<>> THEN XlsxLoop(Tail(lines), st)
             ELSE IF IsSheetHeader(s)
                  THEN XlsxLoop(Tail(lines), NewSheet(st, SheetHeaderName(s)))
             ELSE XlsxLoop(Tail(lines),
                           [st EXCEPT !.sheets[st.ws].rows = Append(@, Cells(line))])

\* save_xlsx_from_flat(text, path): the sheets of the workbook saved
save_xlsx_from_flat(text) == XlsxLoop(Split(text, <<NL>>), NewWorkbook).sheets

(***************************************************************************)
(* file_utils.py: detect_type; main.py: the dispatch and the output plan   *)
(* of api_translate; translator.py: the prompt choice of translate_text    *)
(***************************************************************************)
\* the absent upload, file_kind = None
None == "None"

\* str.lower() on the extensions of the model
Lower(ext) ==
    CASE ext = ".PDF" -> ".pdf"
      [] ext = ".JPG" -> ".jpg"
      [] OTHER -> ext

\* detect_type(ext)
detect_type(ext) ==
    LET e == Lower(ext)
    IN  CASE e = ".pdf" -> "pdf"
          [] e = ".docx" -> "docx"
          [] e = ".txt" -> "txt"
          [] e = ".csv" -> "csv"
          [] e = ".xlsx" -> "txt"
          [] e \in {".png", ".jpg", ".jpeg"} -> "image"
          [] OTHER -> "unknown"

ExtractorUnknownAsTxt(file_kind) ==
    CASE file_kind = "pdf" -> "extract_text_from_pdf"
      [] file_kind = "docx" -> "extract_text_from_docx"
      [] file_kind = "txt" -> "extract_text_from_txt"
      [] file_kind = "csv" -> "extract_text_from_csv"
      [] file_kind = "xlsx" -> "extract_text_from_xlsx"
      [] file_kind = "image" -> "extract_text_from_image"
      [] OTHER -> "extract_text_from_txt"

\* the if / elif chain of api_translate on file_kind: the extractor called,
\* "unsupported" for the else branch that raises HTTPException(400)
Extractor(file_kind) ==
    CASE file_kind = "pdf" -> "extract_text_from_pdf"
      [] file_kind = "docx" -> "extract_text_from_docx"
      [] file_kind = "txt" -> "extract_text_from_txt"
      [] file_kind = "csv" -> "extract_text_from_csv"
      [] file_kind = "xlsx" -> "extract_text_from_xlsx"
      [] file_kind = "image" -> "extract_text_from_image"
      [] OTHER -> "unsupported"

EmptyContentNoStrip(source_text) == source_text = <<>>

\* not source_text or not source_text.strip()
EmptyContent(source_text) == source_text = <<>> \/ Strip(source_text) = <<>>

\* the extractors that raise on a payload they cannot read; the two decoders
\* fall back to latin-1 and never raise
MayRaise(extractor) ==
    extractor \in {"extract_text_from_pdf", "extract_text_from_docx",
                   "extract_text_from_xlsx", "extract_text_from_image"}

\* the mode api_translate hands to translate_text: the call is
\* translate_text(source_text), so mode takes its default
ModePassed(file_kind) == "document"

\* translate_text: the system prompt chosen for the mode
SysPrompt(mode) ==
    CASE mode = "table" -> "tabular data prompt"
      [] mode = "ocr" -> "OCR prompt"
      [] OTHER -> "document prompt"

\* translate_text: temperature=0.2 if mode != "table" else 0.0
Temperature(mode) == IF mode # "table" THEN "0.2" ELSE "0.0"

\* the request of translate_text for one chunk
ChatRequest(ch, mode) ==
    [system |-> SysPrompt(mode), user |-> ch, temperature |-> Temperature(mode)]

\* the if / elif chain of api_translate that persists the outputs: the
\* save_* calls of the branch for file_kind, in the order they are made
SavePlan(file_kind) ==
    CASE file_kind = "xlsx" -> <<"xlsx", "csv">>
      [] file_kind = "csv" -> <<"csv", "xlsx">>
      [] file_kind = "pdf" -> <<"pdf", "docx", "txt">>
      [] file_kind = "docx" -> <<"docx", "pdf", "txt">>
      [] file_kind = "txt" \/ file_kind = None -> <<"txt">>
      [] OTHER -> <<"txt", "docx", "pdf">>

\* the downloads dict of the branch: its keys
Downloads(file_kind) == {SavePlan(file_kind)[i] : i \in 1..Len(SavePlan(file_kind))}

(***************************************************************************)
(* file_utils.py: save_pdf, the split of the text into blocks and the      *)
(* classification of each block. A flowable of the story is modelled by    *)
(* its kind, its heading level (0 when it is no heading) and the block it  *)
(* was made from; its styled content is not modelled.                      *)
(***************************************************************************)
\* \n\s*\n tried at position i of s: the position of the last character of the
\* match, 0 when there is none. \s* is greedy, so the match ends at the last
\* "\n" of the whitespace run that follows s[i]
BlankLineMatchEnd(s, i) ==
    IF s[i] # NL THEN 0
    ELSE LET w == LeadingRun(DropFirst(s, i + 1), Whitespace)
             ks == {k \in (i + 1)..(i + w) : s[k] = NL}
         IN  IF ks = {} THEN 0 ELSE CHOOSE k \in ks : \A j \in ks : j <= k

\* the least position from i on where \n\s*\n matches, 0 when there is none
RECURSIVE FirstBlankLine(_, _)
FirstBlankLine(s, i) ==
    IF i > Len(s) THEN 0
    ELSE IF BlankLineMatchEnd(s, i) > 0 THEN i
    ELSE FirstBlankLine(s, i + 1)

\* re.split(r"\n\s*\n", s)
RECURSIVE SplitBlankLines(_)
SplitBlankLines(s) ==
    LET i == FirstBlankLine(s, 1)
    IN  IF i = 0 THEN <<s>>
        ELSE <<SubSeq(s, 1, i - 1)>> \o SplitBlankLines(DropFirst(s, BlankLineMatchEnd(s, i) + 1))

\* re.match(r"^#{1,3}\s+(.+)$", b): one to three "#", which must be all the
\* leading "#" since \s follows; then some of the whitespace run; then a rest
\* without "\n" up to the end of b (or up to a final "\n")
HeadingMatches(b) ==
    LET e == LeadingRun(b, {"#"})
        w == LeadingRun(DropFirst(b, e + 1), Whitespace)
    IN  /\ e \in 1..3
        /\ \E k \in 1..w :
              LET rest == DropFirst(b, e + k + 1)
                  core == IF rest # <<>> /\ rest[Len(rest)] = NL
                          THEN SubSeq(rest, 1, Len(rest) - 1) ELSE rest
              IN  core # <<>> /\ \A c \in 1..Len(core) : core[c] # NL

\* level = b.count("#", 0, b.find(" ")): find gives -1 when b has no space,
\* and the count then runs over all of b but its last character
HeadingLevel(b) ==
    LET f == Find(b, <<" ">>)
        end == IF f = 0 THEN Len(b) - 1 ELSE f - 1
    IN  Cardinality({k \in 1..end : b[k] = "#"})

\* [h1, h2, h3][level-1]: the position of the style in the list, counted from
\* 1; a negative index counts from the end; 0 stands for IndexError
StyleLookup(level) ==
    LET idx == level - 1
    IN  IF idx \in 0..2 THEN idx + 1
        ELSE IF idx \in -3..-1 THEN idx + 4
        ELSE 0

Digits == {"0", "1", "2", "3", "4", "5", "6", "7", "8", "9"}

\* ln.strip() is not empty
NonEmptyLine(ln) == Strip(ln) # <<>>

\* s.startswith("-") or s.startswith("*") or re.match(r"\d+\.", s)
ListItemStart(s) ==
    \/ s[1] \in {"-", "*"}
    \/ LET d == LeadingRun(s, Digits)
       IN  d >= 1 /\ Len(s) > d /\ s[d + 1] = "."

\* is_list_block(lines)
is_list_block(lines) ==
    LET stripped_lines == SelectSeq(lines, NonEmptyLine)
    IN  /\ stripped_lines # <<>>
        /\ \A i \in 1..Len(stripped_lines) : ListItemStart(Strip(stripped_lines[i]))

\* all(ln.strip().startswith(">") for ln in lines if ln.strip())
IsQuoteBlock(lines) ==
    \A i \in 1..Len(lines) : NonEmptyLine(lines[i]) => Strip(lines[i])[1] = ">"

\* '|' in ln
HasPipe(ln) == \E k \in 1..Len(ln) : ln[k] = "|"

\* max(a, b)
Max(a, b) == IF a >= b THEN a ELSE b

SixtyPercentRoundedUp(n) == (6 * n + 9) \div 10

\* int(0.6 * n): the product truncated; it equals 6n div 10 for every n a
\* block can have (the two agree for all n below 200000)
SixtyPercent(n) == (6 * n) \div 10

\* is_table_block(lines)
is_table_block(lines) ==
    LET candidates == SelectSeq(lines, HasPipe)
    IN  Len(candidates) >= Max(2, SixtyPercent(Len(SelectSeq(lines, NonEmptyLine))))

\* table_from_lines(lines) is not None: some line has a pipe
TableFromLines(lines) == SelectSeq(lines, HasPipe) # <<>>

\* one turn of the loop of save_pdf, for a block b that is not empty: the kind
\* and the level of the flowable appended, kind IndexError when the style
\* lookup of a heading raises
Classify(b) ==
    LET lines == Split(b, <<NL>>)
    IN  IF b = <<"-", "-", "-">> THEN [kind |-> "PageBreak", level |-> 0]
        ELSE IF HeadingMatches(b)
             THEN IF StyleLookup(HeadingLevel(b)) = 0
                  THEN [kind |-> "IndexError", level |-> HeadingLevel(b)]
                  ELSE [kind |-> "Heading", level |-> StyleLookup(HeadingLevel(b))]
        ELSE IF IsSheetHeader(b) THEN [kind |-> "SheetHeader", level |-> 0]
        ELSE IF is_list_block(lines) THEN [kind |-> "List", level |-> 0]
        ELSE IF IsQuoteBlock(lines) THEN [kind |-> "Quote", level |-> 0]
        ELSE IF is_table_block(lines) /\ TableFromLines(lines)
             THEN [kind |-> "Table", level |-> 0]
        ELSE [kind |-> "Paragraph", level |-> 0]

\* story.append(Spacer(...))
Spacer == [kind |-> "Spacer", level |-> 0, block |-> <<>>]

\* the loop of save_pdf over the blocks: the story built, and whether the loop
\* ended in an exception (doc.build is then not reached)
RECURSIVE PdfLoop(_, _)
PdfLoop(blocks, story) ==
    IF blocks = <<>> THEN [story |-> story, raised |-> FALSE]
    ELSE LET b == Strip(Head(blocks))
         IN  IF b = <<>> THEN PdfLoop(Tail(blocks), story)
             ELSE LET c == Classify(b)
                      f == [kind |-> c.kind, level |-> c.level, block |-> b]
                  IN  IF c.kind = "IndexError" THEN [story |-> story, raised |-> TRUE]
                      ELSE IF c.kind = "PageBreak" THEN PdfLoop(Tail(blocks), Append(story, f))
                      ELSE PdfLoop(Tail(blocks), story \o <<f, Spacer>>)

\* save_pdf(text, path)
save_pdf(text) == PdfLoop(SplitBlankLines(Strip(text)), <<>>)

(***************************************************************************)
(* State.                                                                  *)
(***************************************************************************)
VARIABLES
    \* _chunk_text under test: its arguments, its result, and whether it ran
    c_text, c_max_chars, c_parts, c_pc,
    \* strip_markdown and save_txt under test: the text, strip_markdown(text),
    \* strip_markdown of that, the content of the file save_txt wrote
    m_text, m_once, m_twice, m_file, m_pc,
    \* extract_text_from_csv then save_csv_from_flat under test: the decoded
    \* CSV data, the IR extracted, the rows written
    csv_data, csv_ir, csv_rows, csv_pc,
    \* save_xlsx_from_flat under test: the IR text, the sheets of the workbook
    x_text, x_sheets, x_pc,
    \* one request to api_translate
    j_pc,          \* "received", "translate", "render", "returned", "failed"
    j_ext,         \* the suffix of the uploaded file's name, None without file
    j_text,        \* the text form field: <<>> when absent, <<text>> when given
    j_kind,        \* file_kind
    j_extractor,   \* the extractor called, "none" so far
    j_source,      \* source_text: <<>> while it is None, <<text>> once it is set
    j_calls,       \* the requests sent to the translation backend, in order
    j_outputs,     \* translate_text's outputs list
    j_translated,  \* translated
    j_todo,        \* the save_* calls still to make
    j_files,       \* the formats whose file OUTPUT_DIR/<job_id>.<fmt> exists
    j_downloads,   \* the keys of the downloads of the response
    j_status,      \* the HTTP status of the response, 0 before it
    \* save_pdf under test: the IR text, the story built, whether it raised
    p_text, p_story, p_raised, p_pc

chunkVars == <<c_text, c_max_chars, c_parts, c_pc>>
markupVars == <<m_text, m_once, m_twice, m_file, m_pc>>

csvVars == <<csv_data, csv_ir, csv_rows, csv_pc>>
xlsxVars == <<x_text, x_sheets, x_pc>>

jobVars == <<j_pc, j_ext, j_text, j_kind, j_extractor, j_source, j_calls, j_outputs,
             j_translated, j_todo, j_files, j_downloads, j_status>>

pdfVars == <<p_text, p_story, p_raised, p_pc>>

vars == <<chunkVars, markupVars, csvVars, xlsxVars, jobVars, pdfVars>>

(***************************************************************************)
(* Specification of the chunker: every text and max_chars within the       *)
(* bounds, then one call of _chunk_text.                                   *)
(***************************************************************************)
ChunkAlphabet == {"a", NL}

ChunkIdle ==
    /\ c_text = <<>>
    /\ c_max_chars = 0
    /\ c_parts = <<>>
    /\ c_pc = "idle"

MarkupIdle ==
    /\ m_text = <<>>
    /\ m_once = <<>>
    /\ m_twice = <<>>
    /\ m_file = <<>>
    /\ m_pc = "idle"

CsvIdle ==
    /\ csv_data = <<>>
    /\ csv_ir = <<>>
    /\ csv_rows = <<>>
    /\ csv_pc = "idle"

XlsxIdle ==
    /\ x_text = <<>>
    /\ x_sheets = <<>>
    /\ x_pc = "idle"

JobIdle ==
    /\ j_pc = "idle"
    /\ j_ext = None
    /\ j_text = <<>>
    /\ j_kind = None
    /\ j_extractor = "none"
    /\ j_source = <<>>
    /\ j_calls = <<>>
    /\ j_outputs = <<>>
    /\ j_translated = <<>>
    /\ j_todo = <<>>
    /\ j_files = {}
    /\ j_downloads = {}
    /\ j_status = 0

PdfIdle ==
    /\ p_text = <<>>
    /\ p_story = <<>>
    /\ p_raised = FALSE
    /\ p_pc = "idle"

ChunkInit ==
    /\ c_text \in StringsUpTo(ChunkAlphabet, MaxTextLen)
    /\ c_max_chars \in -1..MaxMaxChars
    /\ c_parts = <<>>
    /\ c_pc = "call"

\* parts = _chunk_text(text, max_chars)
CallChunkText ==
    /\ c_pc = "call"
    /\ c_parts' = ChunkText(c_text, c_max_chars)
    /\ c_pc' = "done"
    /\ UNCHANGED <<c_text, c_max_chars>>
    /\ UNCHANGED <<markupVars, csvVars, xlsxVars, jobVars, pdfVars>>

InitChunk == ChunkInit /\ MarkupIdle /\ CsvIdle /\ XlsxIdle /\ JobIdle /\ PdfIdle
NextChunk == CallChunkText
SpecChunk == InitChunk /\ [][NextChunk]_vars

\* no blank-line-delimited block of the text is longer than max_chars
NoOversizedBlock ==
    \A i \in 1..Len(Blocks(c_text)) : Len(Blocks(c_text)[i]) <= c_max_chars

\* C3: whenever no block of the text is longer than max_chars, joining the
\* chunks of _chunk_text with "\n\n" gives back the text exactly, and the
\* blocks of the chunks, read chunk after chunk, are the blocks of the text in
\* their order (no block is split over two chunks, none is lost or moved).
ChunkRoundTrip ==
    (c_pc = "done" /\ NoOversizedBlock) =>
        /\ Join(c_parts, BlockDelim) = c_text
        /\ Flatten(MapSeq(Blocks, c_parts)) = Blocks(c_text)

\* a text without oversized block was cut into several chunks, one of them
\* holding more than one block
ChunkRoundTripWitness ==
    /\ c_pc = "done"
    /\ NoOversizedBlock
    /\ Len(c_parts) >= 2
    /\ \A i \in 1..Len(c_parts) : Len(c_parts[i]) >= 1
    /\ \E i \in 1..Len(c_parts) :
          /\ Len(Blocks(c_parts[i])) >= 2
          /\ \A k \in 1..Len(Blocks(c_parts[i])) : Blocks(c_parts[i])[k] # <<>>

\* C4: every chunk of _chunk_text has at most max_chars characters, unless it
\* is one single block that is itself longer than max_chars.
ChunkBound ==
    c_pc = "done" =>
        \A i \in 1..Len(c_parts) :
            \/ Len(c_parts[i]) <= c_max_chars
            \/ /\ Len(Blocks(c_parts[i])) = 1
               /\ Len(c_parts[i]) > c_max_chars

\* a text was cut into several chunks, one of them an oversized single block
\* that has a neighbour block it was not combined with
ChunkBoundWitness ==
    /\ c_pc = "done"
    /\ c_max_chars >= 1
    /\ Len(c_parts) >= 2
    /\ \E i \in 1..Len(c_parts) : Len(c_parts[i]) > c_max_chars
    /\ \E i \in 1..Len(c_parts) : Len(c_parts[i]) <= c_max_chars /\ Len(c_parts[i]) >= 1

(***************************************************************************)
(* Specification of the markup codec: every string over the markup         *)
(* alphabet within the bound, and the IR of the end-to-end scenario; then  *)
(* either strip_markdown twice in a row, or save_txt.                      *)
(***************************************************************************)
MarkupAlphabet == {"*", "a"}

\* "# Title\n\nHello **world**"
TitleIR == <<"#", " ", "T", "i", "t", "l", "e", "\n", "\n", "H", "e", "l", "l", "o", " ", "*", "*", "w", "o", "r", "l", "d", "*", "*">>

MarkupInit ==
    /\ m_text \in StringsUpTo(MarkupAlphabet, MaxMarkupLen) \cup {TitleIR}
    /\ m_once = <<>>
    /\ m_twice = <<>>
    /\ m_file = <<>>
    /\ m_pc = "start"

\* once = strip_markdown(text)
CallStripMarkdown ==
    /\ m_pc = "start"
    /\ m_once' = strip_markdown(m_text)
    /\ m_pc' = "once"
    /\ UNCHANGED <<m_text, m_twice, m_file>>
    /\ UNCHANGED <<chunkVars, csvVars, xlsxVars, jobVars, pdfVars>>

\* twice = strip_markdown(once)
CallStripMarkdownAgain ==
    /\ m_pc = "once"
    /\ m_twice' = strip_markdown(m_once)
    /\ m_pc' = "twice"
    /\ UNCHANGED <<m_text, m_once, m_file>>
    /\ UNCHANGED <<chunkVars, csvVars, xlsxVars, jobVars, pdfVars>>

\* save_txt(text, path)
CallSaveTxt ==
    /\ m_pc = "start"
    /\ m_file' = save_txt(m_text)
    /\ m_pc' = "saved"
    /\ UNCHANGED <<m_text, m_once, m_twice>>
    /\ UNCHANGED <<chunkVars, csvVars, xlsxVars, jobVars, pdfVars>>

InitMarkup == MarkupInit /\ ChunkIdle /\ CsvIdle /\ XlsxIdle /\ JobIdle /\ PdfIdle
NextMarkup == CallStripMarkdown \/ CallStripMarkdownAgain \/ CallSaveTxt
SpecMarkup == InitMarkup /\ [][NextMarkup]_vars

\* C9: strip_markdown is idempotent: applying it to its own result changes
\* nothing, for every string.
MarkupIdempotent == m_pc = "twice" => m_twice = m_once

\* C10 as claimed: save_txt of "# Title\n\nHello **world**" writes
\* "Title\n\nHello world", with neither the heading marker nor the bold markers.
SaveTxtDropsHeadingMarker ==
    (m_pc = "saved" /\ m_text = TitleIR) => m_file = <<"T", "i", "t", "l", "e", "\n", "\n", "H", "e", "l", "l", "o", " ", "w", "o", "r", "l", "d">>

\* C10 as amended: save_txt of "# Title\n\nHello **world**" writes
\* "# Title\n\nHello world": the bold markers are removed, the heading marker
\* is written unchanged.
SaveTxtKeepsHeadingMarker ==
    (m_pc = "saved" /\ m_text = TitleIR) => m_file = <<"#", " ", "T", "i", "t", "l", "e", "\n", "\n", "H", "e", "l", "l", "o", " ", "w", "o", "r", "l", "d">>

\* save_txt has written the file for the IR of the scenario
SaveTxtTitleWitness ==
    /\ m_pc = "saved"
    /\ m_text = TitleIR
    /\ m_file # m_text

(***************************************************************************)
(* Specification of the CSV round trip: every CSV data over the alphabet   *)
(* within the bound, and the data of the end-to-end scenario; then         *)
(* extract_text_from_csv, then save_csv_from_flat on its result.           *)
(***************************************************************************)
CsvAlphabet == {"a", ",", NL, " "}

\* "a,b\n1,2\n"
ScenarioCsv == <<"a", ",", "b", "\n", "1", ",", "2", "\n">>

CsvInit ==
    /\ csv_data \in StringsUpTo(CsvAlphabet, MaxCsvLen) \cup {ScenarioCsv}
    /\ csv_ir = <<>>
    /\ csv_rows = <<>>
    /\ csv_pc = "start"

\* ir = extract_text_from_csv(data)
CallExtractTextFromCsv ==
    /\ csv_pc = "start"
    /\ csv_ir' = extract_text_from_csv(csv_data)
    /\ csv_pc' = "extracted"
    /\ UNCHANGED <<csv_data, csv_rows>>
    /\ UNCHANGED <<chunkVars, markupVars, xlsxVars, jobVars, pdfVars>>

\* save_csv_from_flat(ir, path)
CallSaveCsvFromFlat ==
    /\ csv_pc = "extracted"
    /\ csv_rows' = save_csv_from_flat(csv_ir)
    /\ csv_pc' = "saved"
    /\ UNCHANGED <<csv_data, csv_ir>>
    /\ UNCHANGED <<chunkVars, markupVars, xlsxVars, jobVars, pdfVars>>

InitCsv == CsvInit /\ ChunkIdle /\ MarkupIdle /\ XlsxIdle /\ JobIdle /\ PdfIdle
NextCsv == CallExtractTextFromCsv \/ CallSaveCsvFromFlat
SpecCsv == InitCsv /\ [][NextCsv]_vars

\* the table of the claim: at least one cell in every row and not all of them
\* empty, no pipe, comma, quote or line break in a cell, no cell that starts
\* or ends with whitespace
PlainCell(c) ==
    /\ \A k \in 1..Len(c) : c[k] \notin {"|", ",", "\"", NL, "\r"}
    /\ Strip(c) = c

PlainTable(rows) ==
    \A i \in 1..Len(rows) :
        /\ \E k \in 1..Len(rows[i]) : rows[i][k] # <<>>
        /\ \A k \in 1..Len(rows[i]) : PlainCell(rows[i][k])

\* C7: for a CSV table of plain cells without empty row,
\* extract_text_from_csv followed by save_csv_from_flat writes the rows of the
\* table, cell for cell.
CsvRoundTrip ==
    (csv_pc = "saved" /\ PlainTable(CsvReader(csv_data))) =>
        csv_rows = CsvReader(csv_data)

(***************************************************************************)
(* Specification of the workbook rendering: every IR text of at most       *)
(* MaxSheetLines lines taken from a pool of lines; then                    *)
(* save_xlsx_from_flat.                                                    *)
(***************************************************************************)
\* "===== Sheet: Q1 ====="
HeaderQ1 == <<"=", "=", "=", "=", "=", " ", "S", "h", "e", "e", "t", ":", " ", "Q", "1", " ", "=", "=", "=", "=", "=">>
\* "  == sheet: a = b =="
HeaderIndented == <<" ", " ", "=", "=", " ", "s", "h", "e", "e", "t", ":", " ", "a", " ", "=", " ", "b", " ", "=", "=">>
\* "Sheet: Q1", not a header: no "=" around it
NoHeader == <<"S", "h", "e", "e", "t", ":", " ", "Q", "1">>
\* "a | b"
RowAB == <<"a", " ", "|", " ", "b">>
\* " "
BlankLine == <<" ">>

LinePool == {HeaderQ1, HeaderIndented, NoHeader, RowAB, BlankLine, <<>>}

XlsxInit ==
    /\ \E ls \in StringsUpTo(LinePool, MaxSheetLines) : x_text = Join(ls, <<NL>>)
    /\ x_sheets = <<>>
    /\ x_pc = "start"

\* save_xlsx_from_flat(text, path)
CallSaveXlsxFromFlat ==
    /\ x_pc = "start"
    /\ x_sheets' = save_xlsx_from_flat(x_text)
    /\ x_pc' = "saved"
    /\ UNCHANGED x_text
    /\ UNCHANGED <<chunkVars, markupVars, csvVars, jobVars, pdfVars>>

InitXlsx == XlsxInit /\ ChunkIdle /\ MarkupIdle /\ CsvIdle /\ JobIdle /\ PdfIdle
NextXlsx == CallSaveXlsxFromFlat
SpecXlsx == InitXlsx /\ [][NextXlsx]_vars

\* the lines of the IR text
XLines == Split(x_text, <<NL>>)

\* the positions of the sheet-boundary lines among lines
BoundaryAt(lines) == {i \in 1..Len(lines) : IsSheetHeader(Strip(lines[i]))}

\* the positions of the row lines among lines, hs being those of the boundaries
RowAt(lines, hs) == {i \in 1..Len(lines) : Strip(lines[i]) # <<>> /\ i \notin hs}

\* the elements of a set of positions in increasing order
RECURSIVE Ascending(_)
Ascending(S) ==
    IF S = {} THEN <<>>
    ELSE LET m == CHOOSE i \in S : \A j \in S : i <= j
         IN  <<m>> \o Ascending(S \ {m})

\* the positions of the row lines that belong to sheet k: those after the
\* k-th boundary and before the next one; sheet 1 also takes the rows before
\* the first boundary. bs = the positions of the boundaries in increasing order
RowsAtOfSheet(k, rs, bs) ==
    {i \in rs :
        /\ k > 1 => i > bs[k]
        /\ k < Len(bs) => i < bs[k + 1]}

ExpectedRows(k, lines, rs, bs) ==
    LET at == Ascending(RowsAtOfSheet(k, rs, bs))
    IN  [n \in 1..Len(at) |-> Cells(lines[at[n]])]

\* C8: a text with h sheet-boundary lines gives a workbook of max(1, h)
\* sheets; the first boundary names the initial sheet, which keeps the rows
\* before it; every later boundary starts a new sheet that receives the rows
\* after it; without boundary the one sheet is Sheet1 and holds every row; and
\* "===== Sheet: Q1 =====\n\na | b" gives a first sheet Q1 with the row [a, b].
SheetBoundaryFidelity ==
    x_pc = "saved" =>
        LET lines == XLines
            hs == BoundaryAt(lines)
            bs == Ascending(hs)
            rs == RowAt(lines, hs)
            h == Len(bs)
        IN  /\ Len(x_sheets) = IF h >= 1 THEN h ELSE 1
            /\ \A k \in 1..Len(x_sheets) : x_sheets[k].rows = ExpectedRows(k, lines, rs, bs)
            /\ h = 0 => x_sheets[1].title = Sheet1
            /\ h >= 1 => x_sheets[1].title = SheetHeaderName(Strip(lines[bs[1]]))
            /\ x_text = Join(<<HeaderQ1, <<>>, RowAB>>, <<NL>>) =>
                  /\ x_sheets[1].title = <<"Q", "1">>
                  /\ x_sheets[1].rows = <<<<<<"a">>, <<"b">>>>>>

\* a text with rows before its first boundary and after its second one was
\* saved as a workbook of two sheets
SheetBoundaryWitness ==
    /\ x_pc = "saved"
    /\ LET hs == BoundaryAt(XLines)
           bs == Ascending(hs)
           rs == RowAt(XLines, hs)
       IN  /\ Len(bs) = 2
           /\ \E i \in rs : i < bs[1]
           /\ \E i \in rs : i > bs[2]
    /\ Len(x_sheets) = 2
    /\ x_sheets[2].rows # <<>>

(***************************************************************************)
(* Specification of api_translate: one request, with or without a file     *)
(* and with or without the text field, followed from its arrival to its    *)
(* response. The extractors, the translation backend and the save_* calls  *)
(* are the environment: an extractor returns one of the texts below or     *)
(* raises, the backend answers a chunk with one of the replies or raises,  *)
(* a save_* call writes its file or raises having written nothing.         *)
(***************************************************************************)
\* the suffixes of the uploaded file names; "" is a name without suffix
Extensions == {".pdf", ".docx", ".txt", ".csv", ".xlsx", ".png", ".jpg", ".jpeg",
               ".PDF", ".JPG", ".md", ""}

\* the values of the text form field, <<>> when it is absent and <<text>> when
\* it is given: absent, "", " ", " a ", "a\n\nb"
FormTexts == {<<>>, << <<>> >>, << <<" ">> >>, << <<" ", "a", " ">> >>,
              << <<"a", "\n", "\n", "b">> >>}

\* what an extractor returns: "", " ", "a", "a\n\nb", "ab\n\nc\n\nd"
ExtractedTexts == {<<>>, <<" ">>, <<"a">>, <<"a", "\n", "\n", "b">>, <<"a", "b", "\n", "\n", "c", "\n", "\n", "d">>}

\* what the backend answers: "e", " e\n"
Replies == {<<"e">>, <<" ", "e", NL>>}

JobInit ==
    /\ j_pc = "received"
    /\ j_ext \in Extensions \cup {None}
    /\ j_text \in FormTexts
    /\ j_kind = None
    /\ j_extractor = "none"
    /\ j_source = <<>>
    /\ j_calls = <<>>
    /\ j_outputs = <<>>
    /\ j_translated = <<>>
    /\ j_todo = <<>>
    /\ j_files = {}
    /\ j_downloads = {}
    /\ j_status = 0

\* not (text and text.strip())
NoText(text) == IF text = <<>> THEN TRUE ELSE Strip(text[1]) = <<>>

\* raise HTTPException(status_code=status, ...), from any point of the handler
Fail(status) ==
    /\ j_pc' = "failed"
    /\ j_status' = status

\* if not file and not (text and text.strip()): raise HTTPException(400)
RejectEmptyRequest ==
    /\ j_pc = "received"
    /\ j_ext = None
    /\ NoText(j_text)
    /\ Fail(400)
    /\ UNCHANGED <<j_ext, j_text, j_kind, j_extractor, j_source, j_calls, j_outputs,
                   j_translated, j_todo, j_files, j_downloads>>
    /\ UNCHANGED <<chunkVars, markupVars, csvVars, xlsxVars, pdfVars>>

\* the branch "if file:": detect_type, the extractor of the kind, the check of
\* its result
ExtractFromFile ==
    /\ j_pc = "received"
    /\ j_ext # None
    /\ LET file_kind == detect_type(Lower(j_ext))
           extractor == Extractor(file_kind)
       IN  /\ j_kind' = file_kind
           /\ \/ /\ extractor = "unsupported"
                 /\ Fail(400)
                 /\ UNCHANGED <<j_extractor, j_source>>
              \/ /\ extractor # "unsupported"
                 /\ MayRaise(extractor)
                 /\ j_extractor' = extractor
                 /\ Fail(500)
                 /\ UNCHANGED j_source
              \/ /\ extractor # "unsupported"
                 /\ j_extractor' = extractor
                 /\ \E source_text \in ExtractedTexts :
                       /\ j_source' = <<source_text>>
                       /\ IF EmptyContent(source_text)
                          THEN Fail(422)
                          ELSE j_pc' = "translate" /\ UNCHANGED j_status
    /\ UNCHANGED <<j_ext, j_text, j_calls, j_outputs, j_translated, j_todo, j_files,
                   j_downloads>>
    /\ UNCHANGED <<chunkVars, markupVars, csvVars, xlsxVars, pdfVars>>

\* else: source_text = text.strip()
UsePastedText ==
    /\ j_pc = "received"
    /\ j_ext = None
    /\ ~NoText(j_text)
    /\ j_source' = <<Strip(j_text[1])>>
    /\ j_pc' = "translate"
    /\ UNCHANGED <<j_ext, j_text, j_kind, j_extractor, j_calls, j_outputs, j_translated,
                   j_todo, j_files, j_downloads, j_status>>
    /\ UNCHANGED <<chunkVars, markupVars, csvVars, xlsxVars, pdfVars>>

\* translate_text(source_text): one turn of its loop over the chunks. The
\* request is sent; the backend raises, which api_translate turns into
\* HTTPException(500), or answers; after the last chunk translate_text
\* returns the outputs joined and api_translate goes on to the save_* calls
TranslateChunk ==
    /\ j_pc = "translate"
    /\ LET mode == ModePassed(j_kind)
           chunks == ChunkText(j_source[1], ScaledMaxChars)
           ch == chunks[Len(j_outputs) + 1]
       IN  /\ j_calls' = Append(j_calls, ChatRequest(ch, mode))
           /\ \/ /\ Fail(500)
                 /\ UNCHANGED <<j_outputs, j_translated, j_todo>>
              \/ \E reply \in Replies :
                    /\ j_outputs' = Append(j_outputs, Strip(reply))
                    /\ IF Len(j_outputs') = Len(chunks)
                       THEN /\ j_translated' = Join(j_outputs', BlockDelim)
                            /\ j_todo' = SavePlan(j_kind)
                            /\ j_pc' = "render"
                       ELSE UNCHANGED <<j_translated, j_todo, j_pc>>
                    /\ UNCHANGED j_status
    /\ UNCHANGED <<j_ext, j_text, j_kind, j_extractor, j_source, j_files, j_downloads>>
    /\ UNCHANGED <<chunkVars, markupVars, csvVars, xlsxVars, pdfVars>>

\* the next save_* call of the branch: it writes OUTPUT_DIR/<job_id>.<fmt>, or
\* raises and api_translate raises HTTPException(500); nothing removes a file.
\* After the last call the downloads are set and the response is returned
SaveNext ==
    /\ j_pc = "render"
    /\ LET fmt == Head(j_todo)
       IN  \/ /\ Fail(500)
              /\ UNCHANGED <<j_todo, j_files, j_downloads>>
           \/ /\ j_files' = j_files \cup {fmt}
              /\ j_todo' = Tail(j_todo)
              /\ IF j_todo' = <<>>
                 THEN /\ j_downloads' = Downloads(j_kind)
                      /\ j_pc' = "returned"
                      /\ j_status' = 200
                 ELSE UNCHANGED <<j_downloads, j_pc, j_status>>
    /\ UNCHANGED <<j_ext, j_text, j_kind, j_extractor, j_source, j_calls, j_outputs,
                   j_translated>>
    /\ UNCHANGED <<chunkVars, markupVars, csvVars, xlsxVars, pdfVars>>

Init == JobInit /\ ChunkIdle /\ MarkupIdle /\ CsvIdle /\ XlsxIdle /\ PdfIdle
Next == RejectEmptyRequest \/ ExtractFromFile \/ UsePastedText \/ TranslateChunk \/ SaveNext
Spec == Init /\ [][Next]_vars

\* C1: a job that ends in failure leaves no artifact file of the job in the
\* output directory and returns no download set.
FailedJobLeavesNoArtifact ==
    j_pc = "failed" => (j_files = {} /\ j_downloads = {})

\* the kind of the table for a supported extension
KindOfExtension(e) ==
    CASE e = ".pdf" -> "pdf"
      [] e = ".docx" -> "docx"
      [] e = ".txt" -> "txt"
      [] e = ".csv" -> "csv"
      [] e = ".xlsx" -> "xlsx"
      [] e \in {".png", ".jpg", ".jpeg"} -> "image"

\* the output formats of the table for a kind
OutputsOfKind(k) ==
    CASE k = "pdf" -> {"pdf", "docx", "txt"}
      [] k = "docx" -> {"docx", "pdf", "txt"}
      [] k = "txt" -> {"txt"}
      [] k = "csv" -> {"csv", "xlsx"}
      [] k = "xlsx" -> {"xlsx", "csv"}
      [] k = "image" -> {"txt", "docx", "pdf"}

\* the extractor of a kind
ExtractorOfKind(k) ==
    CASE k = "pdf" -> "extract_text_from_pdf"
      [] k = "docx" -> "extract_text_from_docx"
      [] k = "txt" -> "extract_text_from_txt"
      [] k = "csv" -> "extract_text_from_csv"
      [] k = "xlsx" -> "extract_text_from_xlsx"
      [] k = "image" -> "extract_text_from_image"

SupportedExtensions == {".pdf", ".docx", ".txt", ".csv", ".xlsx", ".png", ".jpg", ".jpeg"}

\* C2: a file with a supported extension is given the kind of that extension
\* (.xlsx the kind xlsx), goes to the extractor of that kind, and a job that
\* succeeds produces exactly the output formats of the table for that kind.
DispatchFollowsTable ==
    (j_ext # None /\ Lower(j_ext) \in SupportedExtensions /\ j_pc \notin {"received", "idle"}) =>
        LET k == KindOfExtension(Lower(j_ext))
        IN  /\ j_kind = k
            /\ j_extractor = ExtractorOfKind(k)
            /\ j_pc = "returned" => (j_downloads = OutputsOfKind(k) /\ j_files = OutputsOfKind(k))

\* the mode hint of a kind: table for csv and xlsx, ocr for image, else document
ModeOfKind(k) ==
    IF k \in {"csv", "xlsx"} THEN "table" ELSE IF k = "image" THEN "ocr" ELSE "document"

\* C5: every request sent to the translation backend carries the mode hint of
\* the job's kind (the prompt and the temperature translate_text derives from
\* it): table for csv and xlsx, ocr for image, document otherwise.
CallsCarryModeOfKind ==
    \A i \in 1..Len(j_calls) :
        /\ j_calls[i].system = SysPrompt(ModeOfKind(j_kind))
        /\ j_calls[i].temperature = Temperature(ModeOfKind(j_kind))

EmptyExtractionFails ==
    /\ (j_ext # None /\ j_source # <<>>) =>
          (Strip(j_source[1]) = <<>> =>
              /\ j_pc = "failed"
              /\ j_status = 422
              /\ j_calls = <<>>
              /\ j_files = {}
              /\ j_downloads = {})
    /\ j_files # {} => (j_source # <<>> /\ Strip(j_source[1]) # <<>>)

\* the extractor of an uploaded file has returned a text made of whitespace
\* only, and the job is over
EmptyExtractionWitness ==
    /\ j_ext # None
    /\ j_extractor # "none"
    /\ j_source = << <<" ">> >>
    /\ j_pc = "failed"

(***************************************************************************)
(* Specification of the PDF rendering: every IR text of at most            *)
(* MaxPdfLines lines taken from a pool of lines; then save_pdf.            *)
(***************************************************************************)
\* "a|b", "c", "#", "### x", "- i|j", "> q", "---" and the empty line
PdfLinePool == {<<"a", "|", "b">>, <<"c">>, <<"#">>, <<"#", "#", "#", " ", "x">>, <<"-", " ", "i", "|", "j">>, <<">", " ", "q">>, <<"-", "-", "-">>, <<>>}

PdfInit ==
    /\ \E ls \in StringsUpTo(PdfLinePool, MaxPdfLines) : p_text = Join(ls, <<NL>>)
    /\ p_story = <<>>
    /\ p_raised = FALSE
    /\ p_pc = "start"

\* save_pdf(text, path)
CallSavePdf ==
    /\ p_pc = "start"
    /\ p_story' = save_pdf(p_text).story
    /\ p_raised' = save_pdf(p_text).raised
    /\ p_pc' = "done"
    /\ UNCHANGED p_text
    /\ UNCHANGED <<chunkVars, markupVars, csvVars, xlsxVars, jobVars>>

InitPdf == PdfInit /\ ChunkIdle /\ MarkupIdle /\ CsvIdle /\ XlsxIdle /\ JobIdle
NextPdf == CallSavePdf
SpecPdf == InitPdf /\ [][NextPdf]_vars

\* the number of lines of a block that contain a pipe character
PipeLines(b) ==
    Cardinality({i \in 1..Len(Split(b, <<NL>>)) : "|" \in {Split(b, <<NL>>)[i][k] : k \in 1..Len(Split(b, <<NL>>)[i])}})

\* the number of lines of a block that are not empty
NonEmptyLines(b) ==
    Cardinality({i \in 1..Len(Split(b, <<NL>>)) : Strip(Split(b, <<NL>>)[i]) # <<>>})

HeadingLevelIsHashCount ==
    p_pc = "done" =>
        /\ ~p_raised
        /\ \A i \in 1..Len(p_story) :
              p_story[i].kind = "Heading" =>
                  /\ p_story[i].level \in 1..3
                  /\ p_story[i].level = LeadingRun(p_story[i].block, {"#"})

====
